---- MODULE Spec2Model ----
(***************************************************************************)
(* Room/session relay of the multiplayer racer server (src/server/app.py). *)
(* The state is the process-wide game_rooms table, the Socket.IO channel   *)
(* subscriptions, and the messages emitted by the handler that ran last.   *)
(* Every Socket.IO handler runs to completion, so each is one action.      *)
(***************************************************************************)
EXTENDS Integers, Sequences, FiniteSets, TLC

\* ------------------------------------------------------------------ bounds
\* Number of client connections (Socket.IO session ids 1..MaxSids).
MaxSids == 3
\* Number of events the server handles in a run.
MaxEvents == 4

\* ------------------------------------------------------- program constants
\* generate_room_code(length=4)
CodeLength == 4

Sids == 1 .. MaxSids

\* string.ascii_uppercase, restricted to the letters the model uses. With the
\* codes GenerateRoomCode draws, this also limits the rooms held at once.
ascii_uppercase == {"A", "B"}

\* str.upper() on one character.
UpperChar(ch) ==
    CASE ch = "a" -> "A"
      [] ch = "b" -> "B"
      [] OTHER -> ch

\* str.upper(): character by character.
Upper(s) == [i \in 1 .. Len(s) |-> UpperChar(s[i])]

\* The codes random.choices(string.ascii_uppercase, k=length) is let to draw.
GenerateRoomCode(length) ==
    {s \in [1 .. length -> ascii_uppercase] : \A i \in 1 .. length : s[i] = s[1]}

\* Room codes a client may put in a payload: codes as generated, one of them
\* in lower case, and the empty string.
RawCodes ==
    GenerateRoomCode(CodeLength)
        \cup {[i \in 1 .. CodeLength |-> "a"]}
        \cup {<< >>}

\* Display names are sequences of characters. Names a client may send in
\* join_game, and the strings it may send in update_player_name.
JoinNames == {<<"A">>}
NewNames == {<<"B">>, <<" ", "B", " ">>, <<" ">>, << >>}

\* f"#{random.randint(0, 0xFFFFFF):06x}", restricted to one sample.
CarColors == {"#1e90ff"}

\* Vectors are triples of integers counted in halves: [0, 0.5, 0] is <<0, 1, 0>>.
StartPosition == <<0, 1, 0>>
ZeroVector == <<0, 0, 0>>
\* Poses a client may report: position, rotation, velocity.
Poses ==
    { [position |-> <<2, 0, 6>>, rotation |-> <<0, 1, 0>>, velocity |-> <<1, 0, 0>>] }
\* Poses a client may ask a reset to: position, rotation.
ResetPoses == { [position |-> <<0, 1, 4>>, rotation |-> <<0, 2, 0>>] }
\* Player ids a client may name in reset_player_position.
PlayerIds == {1, 2}

VARIABLES
    game_rooms,   \* the room table, a sequence in dict insertion order
    sio_rooms,    \* Socket.IO channel subscriptions: pairs <<room_code, sid>>
    connected,    \* sids whose disconnect has not been handled
    out,          \* messages emitted by the last handler, in order
    ev,           \* the event the last handler handled
    steps,        \* number of events handled so far
    issued,       \* codes answered in room_created since the last room removal
    fresh_joins   \* per code: game_joined answers since creation, -1 once a
                  \* player left the room or the room was removed

vars == <<game_rooms, sio_rooms, connected, out, ev, steps, issued, fresh_joins>>

\* ----------------------------------------------------------- dict helpers
\* `room_code in game_rooms`
HasRoom(rooms, room_code) ==
    \E i \in 1 .. Len(rooms) : rooms[i].room_code = room_code

\* Position of the key in the dict (only used when the key is present).
RoomIndex(rooms, room_code) ==
    CHOOSE i \in 1 .. Len(rooms) : rooms[i].room_code = room_code

\* game_rooms[room_code]
GetRoom(rooms, room_code) == rooms[RoomIndex(rooms, room_code)]

\* `sid in room['players']`
HasPlayer(players, sid) ==
    \E i \in 1 .. Len(players) : players[i].sid = sid

PlayerIndex(players, sid) ==
    CHOOSE i \in 1 .. Len(players) : players[i].sid = sid

\* del d[key] on an insertion-ordered dict stored as a sequence.
RemoveAt(seq, k) ==
    [i \in 1 .. Len(seq) - 1 |-> IF i < k THEN seq[i] ELSE seq[i + 1]]

\* ---------------------------------------------------------------- messages
\* emit(...) without room/to inside a handler answers request.sid; to=<sid>
\* addresses that connection; to=<room_code> addresses the channel (which
\* names no sid: 0).
ToSid(sid) == [kind |-> "sid", sid |-> sid, room_code |-> << >>]
ToRoom(room_code) == [kind |-> "room", sid |-> 0, room_code |-> room_code]

Msg(event, to, data) == [event |-> event, to |-> to, data |-> data]
NoData == [none |-> TRUE]

ErrorMsg(sid, message) == Msg("error", ToSid(sid), [message |-> message])

\* The connections subscribed to a channel.
Subscribers(subs, room_code) == {sid \in Sids : <<room_code, sid>> \in subs}

\* The connections an emitted message is delivered to: the one addressed, or
\* every subscriber of the channel addressed.
Recipients(msg, subs) ==
    IF msg.to.kind = "sid"
    THEN {msg.to.sid}
    ELSE Subscribers(subs, msg.to.room_code)

\* An inbound event: its name, request.sid, and the payload fields the
\* handlers read (a field the event does not carry is empty or 0).
EventWith(op, sid, room_code, name, player_id) ==
    [op |-> op, sid |-> sid, room_code |-> room_code, name |-> name,
     player_id |-> player_id]

Event(op, sid, room_code) == EventWith(op, sid, room_code, << >>, 0)

\* What a handler leaves behind: the table, the messages it emitted, and the
\* channels it subscribed request.sid to with join_room.
Result(rooms, msgs, joined) == [game_rooms |-> rooms, out |-> msgs, joined |-> joined]

Init ==
    /\ game_rooms = << >>
    /\ sio_rooms = {}
    /\ connected = Sids
    /\ out = << >>
    /\ ev = Event("none", 0, << >>)
    /\ steps = 0
    /\ issued = << >>
    /\ fresh_joins = [c \in GenerateRoomCode(CodeLength) |-> -1]

\* A connected client sends one more event.
Handles(sid) ==
    /\ sid \in connected
    /\ steps < MaxEvents
    /\ steps' = steps + 1

\* -------------------------------------------------------------- create_room
\* Faulty variant: the first code drawn is taken without the membership test.
CodeIsUniqueNoCheck(rooms, room_code) == TRUE

\* Loop condition of `while room_code in game_rooms` (negated): the code the
\* loop exits with. The loop does not exit while every code is taken.
CodeIsUnique(rooms, room_code) == ~HasRoom(rooms, room_code)

\* game_rooms[room_code] = {...}: a dict store, which replaces the value of a
\* key already present and appends a new key otherwise.
StoreRoom(rooms, room) ==
    IF HasRoom(rooms, room.room_code)
    THEN [rooms EXCEPT ![RoomIndex(rooms, room.room_code)] = room]
    ELSE Append(rooms, room)

NewRoom(room_code, host_sid) ==
    [room_code |-> room_code, host_sid |-> host_sid, players |-> << >>,
     game_state |-> "waiting"]

create_room(rooms, host_sid, room_code) ==
    Result(StoreRoom(rooms, NewRoom(room_code, host_sid)),
           << Msg("room_created", ToSid(host_sid), [room_code |-> room_code]) >>,
           {room_code})

CreateRoom(sid) ==
    /\ Handles(sid)
    /\ \E room_code \in GenerateRoomCode(CodeLength) :
          /\ CodeIsUnique(game_rooms, room_code)
          /\ LET r == create_room(game_rooms, sid, room_code) IN
                /\ game_rooms' = r.game_rooms
                /\ out' = r.out
                /\ sio_rooms' = sio_rooms \cup {<<c, sid>> : c \in r.joined}
                /\ ev' = Event("create_room", sid, room_code)
                /\ issued' = Append(issued, room_code)
                /\ fresh_joins' = [fresh_joins EXCEPT ![room_code] = 0]
    /\ UNCHANGED connected

\* ---------------------------------------------------------------- join_game
\* `if not room_code or room_code not in game_rooms`
InvalidRoomCode(rooms, room_code) ==
    room_code = << >> \/ ~HasRoom(rooms, room_code)

\* Faulty variant: the error is emitted with room=room_code.
JoinRefusedBroadcast(rooms, sid, room_code, message) ==
    Result(rooms, << Msg("error", ToRoom(room_code), [message |-> message]) >>, {})

\* emit('error', {...}); return
JoinRefused(rooms, sid, room_code, message) ==
    Result(rooms, << ErrorMsg(sid, message) >>, {})

NewPlayer(sid, player_id, player_name, car_color) ==
    [sid |-> sid, id |-> player_id, name |-> player_name, car_color |-> car_color,
     position |-> StartPosition, rotation |-> ZeroVector, velocity |-> ZeroVector,
     controls |-> [steering |-> 0, acceleration |-> 0, braking |-> 0]]

\* room['players'][request.sid] = {...}: replaces the entry of a sid already
\* in the roster (keeping its place), appends otherwise.
StorePlayer(players, player) ==
    IF HasPlayer(players, player.sid)
    THEN [players EXCEPT ![PlayerIndex(players, player.sid)] = player]
    ELSE Append(players, player)

\* `player_id = len(room['players']) + 1`
NextPlayerId(players) == Len(players) + 1

\* Faulty variant: the host is told through the room's channel.
HostAddressChannel(room) == ToRoom(room.room_code)

\* `room=room['host_sid']` of the player_joined emit.
HostAddress(room) == ToSid(room.host_sid)

\* Faulty variant: the phase of the room is not looked at.
GameInProgressNever(room) == FALSE

\* `room['game_state'] != 'waiting'`
GameInProgress(room) == room.game_state # "waiting"

on_join_game(rooms, sid, player_name, raw_code, car_color) ==
    LET room_code == Upper(raw_code) IN
    IF InvalidRoomCode(rooms, room_code)
    THEN JoinRefused(rooms, sid, room_code, "Invalid room code")
    ELSE
      LET k == RoomIndex(rooms, room_code)
          room == rooms[k]
      IN
      IF GameInProgress(room)
      THEN JoinRefused(rooms, sid, room_code, "Game already in progress")
      ELSE
        LET player_id == NextPlayerId(room.players)
            player == NewPlayer(sid, player_id, player_name, car_color)
        IN
        Result([rooms EXCEPT ![k].players = StorePlayer(room.players, player)],
               << Msg("game_joined", ToSid(sid),
                      [player_id |-> player_id, name |-> player_name,
                       car_color |-> car_color]),
                  Msg("player_joined", HostAddress(room),
                      [id |-> player_id, name |-> player_name,
                       car_color |-> car_color, position |-> StartPosition,
                       rotation |-> ZeroVector, velocity |-> ZeroVector]) >>,
               {room_code})

Joined(msgs) == Len(msgs) > 0 /\ msgs[1].event = "game_joined"

JoinGame(sid) ==
    /\ Handles(sid)
    /\ \E player_name \in JoinNames, raw_code \in RawCodes, car_color \in CarColors :
          LET r == on_join_game(game_rooms, sid, player_name, raw_code, car_color) IN
             /\ game_rooms' = r.game_rooms
             /\ out' = r.out
             /\ sio_rooms' = sio_rooms \cup {<<c, sid>> : c \in r.joined}
             /\ ev' = Event("join_game", sid, raw_code)
             /\ fresh_joins' =
                   IF Joined(r.out) /\ fresh_joins[Upper(raw_code)] >= 0
                   THEN [fresh_joins EXCEPT ![Upper(raw_code)] = @ + 1]
                   ELSE fresh_joins
    /\ UNCHANGED <<connected, issued>>

\* --------------------------------------------------------------- start_game
\* Faulty variant: the host test is left out.
IsHostOrAnyone(room, sid) == TRUE

\* `game_rooms[room_code]['host_sid'] != host_sid`, negated
IsHost(room, sid) == room.host_sid = sid

\* Faulty variant: starting a room that is racing puts it back to waiting.
StartedOrBack(game_state) ==
    IF game_state = "racing" THEN "waiting" ELSE "racing"

\* `game_rooms[room_code]['game_state'] = 'racing'`, whatever the state was.
Started(game_state) == "racing"

start_game(rooms, sid, room_code) ==
    IF ~HasRoom(rooms, room_code)
    THEN Result(rooms, << ErrorMsg(sid, "Room not found") >>, {})
    ELSE
      LET k == RoomIndex(rooms, room_code) IN
      IF ~IsHost(rooms[k], sid)
      THEN Result(rooms, << ErrorMsg(sid, "Only the host can start the game") >>, {})
      ELSE Result([rooms EXCEPT ![k].game_state = Started(@)],
                  << Msg("game_started", ToRoom(room_code), NoData) >>, {})

StartGame(sid) ==
    /\ Handles(sid)
    /\ \E room_code \in RawCodes :
          LET r == start_game(game_rooms, sid, room_code) IN
             /\ game_rooms' = r.game_rooms
             /\ out' = r.out
             /\ ev' = Event("start_game", sid, room_code)
    /\ UNCHANGED <<sio_rooms, connected, issued, fresh_joins>>

\* ------------------------------------------------------------ player_update
\* Faulty variant: the guard without its game_state test.
UpdateIgnoredAnyPhase(rooms, sid, room_code) ==
    \/ ~HasRoom(rooms, room_code)
    \/ ~HasPlayer(GetRoom(rooms, room_code).players, sid)

\* The guard of player_update, lines 345-347.
UpdateIgnored(rooms, sid, room_code) ==
    \/ ~HasRoom(rooms, room_code)
    \/ ~HasPlayer(GetRoom(rooms, room_code).players, sid)
    \/ GetRoom(rooms, room_code).game_state # "racing"

player_update(rooms, sid, room_code, pose) ==
    IF UpdateIgnored(rooms, sid, room_code)
    THEN Result(rooms, << >>, {})
    ELSE
      LET k == RoomIndex(rooms, room_code)
          p == PlayerIndex(rooms[k].players, sid)
      IN
      Result([rooms EXCEPT ![k].players[p].position = pose.position,
                           ![k].players[p].rotation = pose.rotation,
                           ![k].players[p].velocity = pose.velocity],
             << Msg("player_position_update", ToSid(rooms[k].host_sid),
                    [player_id |-> rooms[k].players[p].id,
                     position |-> pose.position, rotation |-> pose.rotation,
                     velocity |-> pose.velocity]) >>,
             {})

PlayerUpdate(sid) ==
    /\ Handles(sid)
    /\ \E room_code \in RawCodes, pose \in Poses :
          LET r == player_update(game_rooms, sid, room_code, pose) IN
             /\ game_rooms' = r.game_rooms
             /\ out' = r.out
             /\ ev' = Event("player_update", sid, room_code)
    /\ UNCHANGED <<sio_rooms, connected, issued, fresh_joins>>

\* --------------------------------------------------------------- disconnect
\* The two tests of the loop body: the client is the room's host, or one of
\* its players.
Concerns(room, sid) == room.host_sid = sid \/ HasPlayer(room.players, sid)

\* The loop stops (break) at the first room, in dict order, that passes one
\* of the tests.
FirstConcerned(rooms, sid) ==
    CHOOSE k \in 1 .. Len(rooms) :
        /\ Concerns(rooms[k], sid)
        /\ \A j \in 1 .. k - 1 : ~Concerns(rooms[j], sid)

\* Faulty variant: a room whose last player leaves is deleted.
RemovePlayerAndEmptyRoom(rooms, k, sid) ==
    LET p == PlayerIndex(rooms[k].players, sid)
        player_data == rooms[k].players[p]
        left == RemoveAt(rooms[k].players, p)
    IN
    Result(IF left = << >> THEN RemoveAt(rooms, k)
                           ELSE [rooms EXCEPT ![k].players = left],
           << Msg("player_left", ToSid(rooms[k].host_sid),
                  [player_id |-> player_data.id,
                   player_name |-> player_data.name]) >>,
           {})

\* Faulty variant: player_left is emitted to the room's channel.
RemovePlayerTellRoom(rooms, k, sid) ==
    LET p == PlayerIndex(rooms[k].players, sid)
        player_data == rooms[k].players[p]
    IN
    Result([rooms EXCEPT ![k].players = RemoveAt(@, p)],
           << Msg("player_left", ToRoom(rooms[k].room_code),
                  [player_id |-> player_data.id,
                   player_name |-> player_data.name]) >>,
           {})

\* Lines 379-390: the client was a player of room k.
RemovePlayer(rooms, k, sid) ==
    LET p == PlayerIndex(rooms[k].players, sid)
        player_data == rooms[k].players[p]
    IN
    Result([rooms EXCEPT ![k].players = RemoveAt(@, p)],
           << Msg("player_left", ToSid(rooms[k].host_sid),
                  [player_id |-> player_data.id,
                   player_name |-> player_data.name]) >>,
           {})

\* Lines 371-376: the client was the host of room k.
RemoveHostedRoom(rooms, k) ==
    Result(RemoveAt(rooms, k),
           << Msg("host_disconnected", ToRoom(rooms[k].room_code), NoData) >>,
           {})

handle_disconnect(rooms, client_sid) ==
    IF \A k \in 1 .. Len(rooms) : ~Concerns(rooms[k], client_sid)
    THEN Result(rooms, << >>, {})
    ELSE
      LET k == FirstConcerned(rooms, client_sid) IN
      IF rooms[k].host_sid = client_sid
      THEN RemoveHostedRoom(rooms, k)
      ELSE RemovePlayer(rooms, k, client_sid)

\* A room of `before` that is gone, or has lost a player, in `after`.
LostSomeone(before, after, room_code) ==
    /\ HasRoom(before, room_code)
    /\ \/ ~HasRoom(after, room_code)
       \/ Len(GetRoom(after, room_code).players)
              < Len(GetRoom(before, room_code).players)

\* Socket.IO drops a disconnected sid from every channel once the handler
\* has returned.
Disconnect(sid) ==
    /\ Handles(sid)
    /\ LET r == handle_disconnect(game_rooms, sid) IN
          /\ game_rooms' = r.game_rooms
          /\ out' = r.out
          /\ issued' = IF Len(r.game_rooms) < Len(game_rooms) THEN << >> ELSE issued
          /\ fresh_joins' =
                [c \in DOMAIN fresh_joins |->
                    IF LostSomeone(game_rooms, r.game_rooms, c)
                    THEN -1 ELSE fresh_joins[c]]
    /\ sio_rooms' = {pair \in sio_rooms : pair[2] # sid}
    /\ connected' = connected \ {sid}
    /\ ev' = Event("disconnect", sid, << >>)

\* ----------------------------------------------------- reset_player_position
\* Faulty variant: every player of the roster counts as a match.
MatchesAnyone(players, player_id) == 1 .. Len(players)

\* The players of the roster, in join order, whose id is player_id.
Matches(players, player_id) ==
    {p \in 1 .. Len(players) : players[p].id = player_id}

\* Faulty variant: the loop runs on, so the last match is the one reset.
LastMatch(players, player_id) ==
    CHOOSE p \in Matches(players, player_id) :
        \A q \in Matches(players, player_id) : p >= q

\* The loop of lines 406-429 stops (break) at the first match.
FirstMatch(players, player_id) ==
    CHOOSE p \in Matches(players, player_id) :
        \A q \in Matches(players, player_id) : p <= q

handle_reset_position(rooms, room_code, player_id, position, rotation) ==
    IF room_code = << >> \/ ~HasRoom(rooms, room_code)
    THEN Result(rooms, << >>, {})
    ELSE
      LET k == RoomIndex(rooms, room_code) IN
      IF Matches(rooms[k].players, player_id) = {}
      THEN Result(rooms, << >>, {})
      ELSE
        LET p == FirstMatch(rooms[k].players, player_id) IN
        Result([rooms EXCEPT ![k].players[p].position = position,
                             ![k].players[p].rotation = rotation,
                             ![k].players[p].velocity = ZeroVector],
               << Msg("position_reset", ToSid(rooms[k].players[p].sid),
                      [position |-> position, rotation |-> rotation]),
                  Msg("player_position_update", ToSid(rooms[k].host_sid),
                      [player_id |-> player_id, position |-> position,
                       rotation |-> rotation, velocity |-> ZeroVector]) >>,
               {})

ResetPosition(sid) ==
    /\ Handles(sid)
    /\ \E room_code \in RawCodes, player_id \in PlayerIds, pose \in ResetPoses :
          LET r == handle_reset_position(game_rooms, room_code, player_id,
                                         pose.position, pose.rotation)
          IN
             /\ game_rooms' = r.game_rooms
             /\ out' = r.out
             /\ ev' = EventWith("reset_player_position", sid, room_code, << >>,
                               player_id)
    /\ UNCHANGED <<sio_rooms, connected, issued, fresh_joins>>

\* --------------------------------------------------------- update_player_name
IsSpace(ch) == ch = " "

RECURSIVE LStrip(_)
LStrip(s) == IF s # << >> /\ IsSpace(Head(s)) THEN LStrip(Tail(s)) ELSE s

RECURSIVE RStrip(_)
RStrip(s) ==
    IF s # << >> /\ IsSpace(s[Len(s)]) THEN RStrip(SubSeq(s, 1, Len(s) - 1)) ELSE s

\* Faulty variant: the name is taken as sent.
StripNothing(s) == s

\* str.strip()
Strip(s) == RStrip(LStrip(s))

\* The loop of lines 442-461 returns at the first room, in dict order, whose
\* roster holds the sid.
FirstRoomOf(rooms, sid) ==
    CHOOSE k \in 1 .. Len(rooms) :
        /\ HasPlayer(rooms[k].players, sid)
        /\ \A j \in 1 .. k - 1 : ~HasPlayer(rooms[j].players, sid)

NameUpdateFailed(sid, message) ==
    Msg("name_updated", ToSid(sid), [success |-> FALSE, message |-> message])

update_player_name(rooms, player_sid, raw_name) ==
    LET new_name == Strip(raw_name) IN
    IF new_name = << >>
    THEN Result(rooms, << NameUpdateFailed(player_sid, "Invalid name") >>, {})
    ELSE
      IF \A k \in 1 .. Len(rooms) : ~HasPlayer(rooms[k].players, player_sid)
      THEN Result(rooms, << NameUpdateFailed(player_sid, "Player not in a room") >>, {})
      ELSE
        LET k == FirstRoomOf(rooms, player_sid)
            p == PlayerIndex(rooms[k].players, player_sid)
        IN
        Result([rooms EXCEPT ![k].players[p].name = new_name],
               << Msg("name_updated", ToSid(player_sid),
                      [success |-> TRUE, name |-> new_name]),
                  Msg("player_name_updated", ToSid(rooms[k].host_sid),
                      [player_id |-> rooms[k].players[p].id, name |-> new_name]) >>,
               {})

UpdatePlayerName(sid) ==
    /\ Handles(sid)
    /\ \E raw_name \in NewNames :
          LET r == update_player_name(game_rooms, sid, raw_name) IN
             /\ game_rooms' = r.game_rooms
             /\ out' = r.out
             /\ ev' = EventWith("update_player_name", sid, << >>, raw_name, 0)
    /\ UNCHANGED <<sio_rooms, connected, issued, fresh_joins>>

\* ---------------------------------------------------- player_control_update
\* Control values are counted in tenths: 1.0 is 10.
One == 10

\* No key of a dict: what `{}` and a missing `controls` come to.
EmptyDict == [key \in {} |-> 0]

\* Payloads a client may send. player_id 0 and timestamp 0 stand for a
\* missing (or falsy) field.
ControlPayloads ==
    { [player_id |-> 1, room_code |-> <<"A", "A", "A", "A">>, timestamp |-> 7,
       controls |-> [steering |-> 50, acceleration |-> 5, braking |-> -20]],
      [player_id |-> 2, room_code |-> <<"B", "B", "B", "B">>, timestamp |-> 7,
       controls |-> [steering |-> -15, acceleration |-> 20]],
      [player_id |-> 2, room_code |-> <<"a", "a", "a", "a">>, timestamp |-> 7,
       controls |-> [steering |-> -10, acceleration |-> -3, braking |-> 10]],
      [player_id |-> 1, room_code |-> <<"B", "B", "B", "B">>, timestamp |-> 7,
       controls |-> [steering |-> 10, acceleration |-> 0, braking |-> 25]],
      [player_id |-> 2, room_code |-> <<"A", "A", "A", "A">>, timestamp |-> 7,
       controls |-> [steering |-> 3, acceleration |-> 10, braking |-> 0]],
      [player_id |-> 0, room_code |-> <<"A", "A", "A", "A">>, timestamp |-> 7,
       controls |-> [steering |-> 2, acceleration |-> 2, braking |-> 2]],
      [player_id |-> 1, room_code |-> << >>, timestamp |-> 7,
       controls |-> [steering |-> 2, acceleration |-> 2, braking |-> 2]],
      [player_id |-> 1, room_code |-> <<"A", "A", "A", "A">>, timestamp |-> 0,
       controls |-> [steering |-> 2, acceleration |-> 2, braking |-> 2]],
      [player_id |-> 1, room_code |-> <<"A", "A", "A", "A">>, timestamp |-> 7,
       controls |-> EmptyDict] }

\* Python's two-argument min and max: the first argument unless the second
\* is strictly smaller (larger).
PyMin(a, b) == IF b < a THEN b ELSE a
PyMax(a, b) == IF b > a THEN b ELSE a

\* controls.get(key, 0)
GetControl(controls, key) ==
    IF key \in DOMAIN controls THEN controls[key] ELSE 0

\* max(-1.0, min(1.0, x))
ClampSigned(x) == PyMax(-One, PyMin(One, x))

\* Faulty variant: the range of steering used for the pedals too.
ClampUnitAsSigned(x) == PyMax(-One, PyMin(One, x))

\* max(0.0, min(1.0, x))
ClampUnit(x) == PyMax(0, PyMin(One, x))

\* `not all([player_sid, room_code, controls, timestamp])`
MissingField(data) ==
    \/ data.player_id = 0
    \/ data.room_code = << >>
    \/ DOMAIN data.controls = {}
    \/ data.timestamp = 0

\* The handler emits to room=room_code before it looks the code up in
\* game_rooms, and then only logs.
player_control_update(rooms, data) ==
    IF MissingField(data)
    THEN Result(rooms, << >>, {})
    ELSE Result(rooms,
                << Msg("player_controls_update", ToRoom(data.room_code),
                       [player_id |-> data.player_id,
                        steering |-> ClampSigned(GetControl(data.controls, "steering")),
                        acceleration |->
                            ClampUnit(GetControl(data.controls, "acceleration")),
                        braking |-> ClampUnit(GetControl(data.controls, "braking")),
                        timestamp |-> data.timestamp]) >>,
                {})

ControlEvent(sid, data) ==
    [op |-> "player_control_update", sid |-> sid, room_code |-> data.room_code,
     name |-> << >>, player_id |-> data.player_id, controls |-> data.controls,
     timestamp |-> data.timestamp]

PlayerControlUpdate(sid) ==
    /\ Handles(sid)
    /\ \E data \in ControlPayloads :
          LET r == player_control_update(game_rooms, data) IN
             /\ game_rooms' = r.game_rooms
             /\ out' = r.out
             /\ ev' = ControlEvent(sid, data)
    /\ UNCHANGED <<sio_rooms, connected, issued, fresh_joins>>

Next ==
    \E sid \in Sids :
       \/ CreateRoom(sid)
       \/ JoinGame(sid)
       \/ StartGame(sid)
       \/ PlayerUpdate(sid)
       \/ Disconnect(sid)
       \/ ResetPosition(sid)
       \/ UpdatePlayerName(sid)

Spec == Init /\ [][Next]_vars

\* The relay with control forwarding: rooms are made, joined and left, and
\* clients send control updates.
NextControls ==
    \E sid \in Sids :
       \/ CreateRoom(sid)
       \/ JoinGame(sid)
       \/ Disconnect(sid)
       \/ PlayerControlUpdate(sid)

SpecControls == Init /\ [][NextControls]_vars

\* A lobby: one room has just been created by some client (the state
\* CreateRoom leaves when it is the first event); steps counts the events
\* handled after that.
InitLobby ==
    \E host_sid \in Sids, room_code \in GenerateRoomCode(CodeLength) :
       LET r == create_room(<< >>, host_sid, room_code) IN
          /\ game_rooms = r.game_rooms
          /\ sio_rooms = {<<c, host_sid>> : c \in r.joined}
          /\ connected = Sids
          /\ out = r.out
          /\ ev = Event("create_room", host_sid, room_code)
          /\ steps = 0
          /\ issued = <<room_code>>
          /\ fresh_joins = [c \in GenerateRoomCode(CodeLength) |->
                               IF c = room_code THEN 0 ELSE -1]

\* Clients join the room and ask for position resets.
NextLobby ==
    \E sid \in Sids :
       \/ JoinGame(sid)
       \/ ResetPosition(sid)

SpecLobby == InitLobby /\ [][NextLobby]_vars

\* ------------------------------------------------------------------ claims
\* The step just taken handled an event `op`.
Handled(op) == steps' = steps + 1 /\ ev'.op = op

Rooms == 1 .. Len(game_rooms)

\* C1: no two players present in the roster of one room have the same
\* numeric id.
C1_UniqueIdsInRoom ==
    \A k \in Rooms :
        \A p, q \in 1 .. Len(game_rooms[k].players) :
            p # q => game_rooms[k].players[p].id # game_rooms[k].players[q].id

\* C2: once the disconnect of a connection has been handled, no room whose
\* host is that connection is left in the store (so its code is unknown to a
\* later join_game).
C2_DisconnectRemovesHostedRooms ==
    ev.op = "disconnect" =>
        \A k \in Rooms : game_rooms[k].host_sid # ev.sid

\* C3: no connection is at once the host of a room and a player in the
\* roster of any room.
C3_HostIsNoPlayer ==
    \A k, j \in Rooms : ~HasPlayer(game_rooms[j].players, game_rooms[k].host_sid)

NoDuplicates(seq) ==
    \A i, j \in 1 .. Len(seq) : i # j => seq[i] # seq[j]

\* C4: the codes answered in room_created since the last room removal are
\* pairwise distinct, and a create_room step answers a code that was not a
\* key of the store and leaves every room that was in the store as it was.
C4_CreatedCodesDistinct ==
    /\ [](NoDuplicates(issued))
    /\ [][Handled("create_room") =>
            /\ ~HasRoom(game_rooms, ev'.room_code)
            /\ out' = << Msg("room_created", ToSid(ev'.sid),
                             [room_code |-> ev'.room_code]) >>
            /\ Len(game_rooms') = Len(game_rooms) + 1
            /\ SubSeq(game_rooms', 1, Len(game_rooms)) = game_rooms
            /\ game_rooms'[Len(game_rooms')].room_code = ev'.room_code]_vars

C4_Witness ==
    /\ ev.op = "create_room"
    /\ Len(issued) = 2
    /\ Len(game_rooms) = 2

IdsOf(players) == {players[p].id : p \in 1 .. Len(players)}
SidsOf(players) == {players[p].sid : p \in 1 .. Len(players)}

\* C5: a room that has answered N join_game events with game_joined since it
\* was created, and that no player has left, holds exactly N players, of N
\* connections, whose ids are exactly 1..N.
C5_FreshRoomIds ==
    \A k \in Rooms :
        LET n == fresh_joins[game_rooms[k].room_code]
            players == game_rooms[k].players
        IN n >= 0 =>
              /\ Len(players) = n
              /\ Cardinality(SidsOf(players)) = n
              /\ IdsOf(players) = 1 .. n
IsPlayerSomewhere(rooms, sid) ==
    \E k \in 1 .. Len(rooms) : HasPlayer(rooms[k].players, sid)

IsHostSomewhere(rooms, sid) ==
    \E k \in 1 .. Len(rooms) : rooms[k].host_sid = sid

Without(players, sid) == SelectSeq(players, LAMBDA e : e.sid # sid)

EntryOf(players, sid) == players[PlayerIndex(players, sid)]

\* C6: the disconnect of a connection that is a player and no host takes
\* exactly its entry out of the roster of one room (the first in store order
\* that holds it), leaves host, phase and the other entries of that room and
\* every other room as they were, and emits exactly one message: player_left
\* with the id and name of that entry, to the host of that room.
C6_PlayerDisconnectFrame ==
    [][(/\ Handled("disconnect")
        /\ IsPlayerSomewhere(game_rooms, ev'.sid)
        /\ ~IsHostSomewhere(game_rooms, ev'.sid))
       =>
       \E k \in Rooms :
          /\ HasPlayer(game_rooms[k].players, ev'.sid)
          /\ \A j \in 1 .. k - 1 : ~HasPlayer(game_rooms[j].players, ev'.sid)
          /\ Len(game_rooms') = Len(game_rooms)
          /\ \A j \in Rooms : j # k => game_rooms'[j] = game_rooms[j]
          /\ game_rooms'[k].room_code = game_rooms[k].room_code
          /\ game_rooms'[k].host_sid = game_rooms[k].host_sid
          /\ game_rooms'[k].game_state = game_rooms[k].game_state
          /\ game_rooms'[k].players = Without(game_rooms[k].players, ev'.sid)
          /\ Len(game_rooms'[k].players) = Len(game_rooms[k].players) - 1
          /\ out' = << Msg("player_left", ToSid(game_rooms[k].host_sid),
                           [player_id |-> EntryOf(game_rooms[k].players, ev'.sid).id,
                            player_name |->
                                EntryOf(game_rooms[k].players, ev'.sid).name]) >>
      ]_vars

\* A player left a room in which another player stays.
C6_Witness ==
    /\ ev.op = "disconnect"
    /\ Len(out) = 1
    /\ out[1].event = "player_left"
    /\ ~IsHostSomewhere(game_rooms, ev.sid)
    /\ \E k \in Rooms :
          /\ game_rooms[k].host_sid = out[1].to.sid
          /\ Len(game_rooms[k].players) >= 1

\* C7: a room code that is a key of the store before a step and not after it
\* was removed by the disconnect of the host of that room; no other step
\* removes a room.
C7_OnlyHostDisconnectRemovesRoom ==
    [][\A k \in Rooms :
          ~HasRoom(game_rooms', game_rooms[k].room_code)
             => /\ Handled("disconnect")
                /\ ev'.sid = game_rooms[k].host_sid
      ]_vars

\* The last player of a room left and the room is still in the store.
C7_Witness ==
    /\ ev.op = "disconnect"
    /\ Len(out) = 1
    /\ out[1].event = "player_left"
    /\ \E k \in Rooms :
          /\ game_rooms[k].host_sid = out[1].to.sid
          /\ game_rooms[k].players = << >>

\* C8: start_game for a room in the store, sent by a connection that is not
\* its host, changes nothing in the store or the subscriptions and emits one
\* message only: the only-the-host error, to the sender.
C8_StartByNonHost ==
    [][(/\ Handled("start_game")
        /\ HasRoom(game_rooms, ev'.room_code)
        /\ GetRoom(game_rooms, ev'.room_code).host_sid # ev'.sid)
       =>
       /\ game_rooms' = game_rooms
       /\ sio_rooms' = sio_rooms
       /\ out' = << Msg("error", ToSid(ev'.sid),
                        [message |-> "Only the host can start the game"]) >>
      ]_vars

C8_Witness ==
    /\ ev.op = "start_game"
    /\ HasRoom(game_rooms, ev.room_code)
    /\ GetRoom(game_rooms, ev.room_code).host_sid # ev.sid
    /\ GetRoom(game_rooms, ev.room_code).game_state = "waiting"
    /\ Len(out) = 1
    /\ out[1].event = "error"

\* C9: player_update naming a room that is absent, or of which the sender is
\* no current player, or whose phase is not racing, changes nothing in the
\* store and emits no message.
C9_UpdateIgnored ==
    [][(/\ Handled("player_update")
        /\ \/ ~HasRoom(game_rooms, ev'.room_code)
           \/ ~HasPlayer(GetRoom(game_rooms, ev'.room_code).players, ev'.sid)
           \/ GetRoom(game_rooms, ev'.room_code).game_state # "racing")
       =>
       /\ game_rooms' = game_rooms
       /\ sio_rooms' = sio_rooms
       /\ out' = << >>
      ]_vars

\* A player of a waiting room sent player_update.
C9_Witness ==
    /\ ev.op = "player_update"
    /\ HasRoom(game_rooms, ev.room_code)
    /\ HasPlayer(GetRoom(game_rooms, ev.room_code).players, ev.sid)
    /\ GetRoom(game_rooms, ev.room_code).game_state = "waiting"
    /\ out = << >>

JoinRejectedUnchanged ==
    /\ game_rooms' = game_rooms
    /\ sio_rooms' = sio_rooms
    /\ out' = << Msg("error", ToSid(ev'.sid), [message |-> "Invalid room code"]) >>

\* C10 as stated: join_game with a room code that is no key of the store is
\* answered with an error to the sender only and changes neither the store
\* nor the subscriptions.
C10_UnknownCodeAsSent ==
    [][(Handled("join_game") /\ ~HasRoom(game_rooms, ev'.room_code))
          => JoinRejectedUnchanged]_vars

\* C10 amended: join_game with a room code that, once upper-cased, is no key
\* of the store is answered with an error to the sender only and changes
\* neither the store nor the subscriptions.
C10_UnknownCodeUpperCased ==
    [][(Handled("join_game") /\ ~HasRoom(game_rooms, Upper(ev'.room_code)))
          => JoinRejectedUnchanged]_vars

\* A join naming a code that, upper-cased, is in no room was refused while
\* another room is in the store.
C10_Witness ==
    /\ ev.op = "join_game"
    /\ ev.room_code # << >>
    /\ ~HasRoom(game_rooms, Upper(ev.room_code))
    /\ game_rooms # << >>
    /\ Len(out) = 1
    /\ out[1].event = "error"
\* A string with nothing but white space in it (the empty one included).
OnlySpaces(name) == \A i \in 1 .. Len(name) : name[i] = " "

\* C11: update_player_name with a name that is empty once stripped changes
\* nothing in the store and emits one message only: a failed name_updated
\* (invalid name) to the sender; no host is told anything.
C11_EmptyNameRefused ==
    [][(Handled("update_player_name") /\ OnlySpaces(ev'.name))
       =>
       /\ game_rooms' = game_rooms
       /\ sio_rooms' = sio_rooms
       /\ out' = << Msg("name_updated", ToSid(ev'.sid),
                        [success |-> FALSE, message |-> "Invalid name"]) >>
      ]_vars

\* A player of a room sent a name made of white space only.
C11_Witness ==
    /\ ev.op = "update_player_name"
    /\ ev.name = << " " >>
    /\ IsPlayerSomewhere(game_rooms, ev.sid)
    /\ \E k \in Rooms : HasPlayer(game_rooms[k].players, ev.sid)
                           /\ game_rooms[k].host_sid # ev.sid
    /\ Len(out) = 1
    /\ out[1].event = "name_updated"
\* C12: a room enters the store in phase waiting, and a room that is racing
\* is still racing after any step that leaves it in the store.
C12_PhaseOnlyForward ==
    /\ [][\A k \in 1 .. Len(game_rooms') :
             ~HasRoom(game_rooms, game_rooms'[k].room_code)
                => game_rooms'[k].game_state = "waiting"]_vars
    /\ [][\A k \in Rooms :
             (/\ game_rooms[k].game_state = "racing"
              /\ HasRoom(game_rooms', game_rooms[k].room_code))
                => GetRoom(game_rooms', game_rooms[k].room_code).game_state
                      = "racing"]_vars

\* A room is racing after an event that did not start it: start_game from a
\* connection that is not its host.
C12_Witness ==
    /\ ev.op = "start_game"
    /\ HasRoom(game_rooms, ev.room_code)
    /\ GetRoom(game_rooms, ev.room_code).game_state = "racing"
    /\ GetRoom(game_rooms, ev.room_code).host_sid # ev.sid

\* How many messages `event` emitted to the channel of room_code reach sid.
ReceivedOnChannel(msgs, subs, sid, event, room_code) ==
    Cardinality({i \in 1 .. Len(msgs) :
                    /\ msgs[i].event = event
                    /\ msgs[i].to = ToRoom(room_code)
                    /\ sid \in Recipients(msgs[i], subs)})

\* C13: when the host of a room disconnects, every other connection that is
\* subscribed to the channel of that room receives host_disconnected exactly
\* once for that room, and host_disconnected goes to channels only.
C13_HostDisconnectedOnce ==
    [][Handled("disconnect") =>
         /\ \A i \in 1 .. Len(out') :
               out'[i].event = "host_disconnected" => out'[i].to.kind = "room"
         /\ \A k \in Rooms :
               game_rooms[k].host_sid = ev'.sid =>
                  \A s \in Subscribers(sio_rooms, game_rooms[k].room_code) \ {ev'.sid} :
                     ReceivedOnChannel(out', sio_rooms, s, "host_disconnected",
                                       game_rooms[k].room_code) = 1
      ]_vars
HostDirected ==
    {"player_joined", "player_position_update", "player_left", "player_name_updated"}

\* The id of the player a host-directed message is about.
MsgPlayerId(msg) ==
    IF msg.event = "player_joined" THEN msg.data.id ELSE msg.data.player_id

\* Room k of the store is the room of the player the event just handled is
\* about: the room the event names, or, for the events that name none, the
\* first room in store order whose roster holds the sender.
AboutRoom(k) ==
    CASE ev'.op = "join_game" ->
            game_rooms[k].room_code = Upper(ev'.room_code)
      [] ev'.op \in {"player_update", "reset_player_position"} ->
            game_rooms[k].room_code = ev'.room_code
      [] ev'.op \in {"update_player_name", "disconnect"} ->
            /\ HasPlayer(game_rooms[k].players, ev'.sid)
            /\ \A j \in 1 .. k - 1 : ~HasPlayer(game_rooms[j].players, ev'.sid)
      [] OTHER -> FALSE

\* The roster of room k, before or after the step, holds a player with this
\* id (who is the sender, unless the event is a reset, which names the id).
HoldsSubject(k, player_id) ==
    \E players \in {game_rooms[k].players, game_rooms'[k].players} :
       \E p \in 1 .. Len(players) :
          /\ players[p].id = player_id
          /\ ev'.op # "reset_player_position" => players[p].sid = ev'.sid

\* C14: every player_joined, player_position_update, player_left and
\* player_name_updated message is addressed to one connection, the host of
\* the room of the player it is about, and never to a channel.
C14_HostDirected ==
    [][\A i \in 1 .. Len(out') :
          out'[i].event \in HostDirected =>
             /\ Len(game_rooms') = Len(game_rooms)
             /\ \E k \in Rooms :
                   /\ AboutRoom(k)
                   /\ out'[i].to = ToSid(game_rooms[k].host_sid)
                   /\ HoldsSubject(k, MsgPlayerId(out'[i]))
      ]_vars

\* The host of a racing room was sent the position of a player who is not
\* the host.
C14_Witness ==
    /\ ev.op = "player_update"
    /\ Len(out) = 1
    /\ out[1].event = "player_position_update"
    /\ out[1].to.kind = "sid"
    /\ out[1].to.sid # ev.sid
\* x brought into lo..hi.
Clamped(lo, hi, x) == IF x < lo THEN lo ELSE IF x > hi THEN hi ELSE x

\* The value of a control in the payload of the event just handled (0 when
\* the payload does not carry it).
Sent(key) == IF key \in DOMAIN ev.controls THEN ev.controls[key] ELSE 0

\* C15: every player_controls_update emitted carries the steering sent
\* brought into [-1, 1] and the acceleration and braking sent brought into
\* [0, 1] (values in tenths).
C15_ControlsClamped ==
    ev.op = "player_control_update" =>
       \A i \in 1 .. Len(out) :
          out[i].event = "player_controls_update" =>
             /\ out[i].data.steering = Clamped(-10, 10, Sent("steering"))
             /\ out[i].data.acceleration = Clamped(0, 10, Sent("acceleration"))
             /\ out[i].data.braking = Clamped(0, 10, Sent("braking"))

\* Steering 5.0 was forwarded as 1.0 and braking -2.0 as 0.0.
C15_Witness ==
    /\ ev.op = "player_control_update"
    /\ Sent("steering") = 50
    /\ Sent("braking") = -20
    /\ Len(out) = 1
    /\ out[1].event = "player_controls_update"
    /\ out[1].data.steering = 10
    /\ out[1].data.braking = 0
\* C16: once the disconnect of a connection has been handled, handling a
\* disconnect of the same connection again changes no room and emits
\* nothing.
C16_DuplicateDisconnectNoOp ==
    ev.op = "disconnect" =>
       handle_disconnect(game_rooms, ev.sid) = Result(game_rooms, << >>, {})
\* C17: join_game for an existing room that is not waiting changes no room
\* and no channel subscription and sends one error, to the sender only; and
\* no step lengthens the roster of a room that is racing.
C17_JoinRefusedWhenRacing ==
    /\ [][(/\ Handled("join_game")
           /\ HasRoom(game_rooms, Upper(ev'.room_code))
           /\ GetRoom(game_rooms, Upper(ev'.room_code)).game_state # "waiting")
          =>
          /\ game_rooms' = game_rooms
          /\ sio_rooms' = sio_rooms
          /\ out' = << Msg("error", ToSid(ev'.sid),
                           [message |-> "Game already in progress"]) >>]_vars
    /\ [][\A k \in Rooms :
             (/\ game_rooms[k].game_state = "racing"
              /\ HasRoom(game_rooms', game_rooms[k].room_code))
                => Len(GetRoom(game_rooms', game_rooms[k].room_code).players)
                      <= Len(game_rooms[k].players)]_vars

\* A connection that is not the host has asked to join a racing room and was
\* answered with the error.
C17_Witness ==
    /\ ev.op = "join_game"
    /\ HasRoom(game_rooms, Upper(ev.room_code))
    /\ GetRoom(game_rooms, Upper(ev.room_code)).game_state = "racing"
    /\ GetRoom(game_rooms, Upper(ev.room_code)).host_sid # ev.sid
    /\ ~HasPlayer(GetRoom(game_rooms, Upper(ev.room_code)).players, ev.sid)
    /\ out = << ErrorMsg(ev.sid, "Game already in progress") >>
\* Some player of the roster has this id.
HasId(players, player_id) ==
    \E p \in 1 .. Len(players) : players[p].id = player_id

\* The earliest place of the roster whose player has this id.
FirstWithId(players, player_id) ==
    CHOOSE p \in 1 .. Len(players) :
        /\ players[p].id = player_id
        /\ \A q \in 1 .. (p - 1) : players[q].id # player_id

\* C18: reset_player_position for a room that exists and an id present in
\* its roster sets the position and rotation asked for and a zero velocity
\* on the first player in join order with that id, leaves every other
\* player and every other room as they were, and sends position_reset to
\* that player's connection and then player_position_update to the host of
\* the room; for an absent room or id no room changes and nothing is sent.
C18_ResetFirstMatch ==
    [][Handled("reset_player_position") =>
         /\ sio_rooms' = sio_rooms
         /\ IF /\ HasRoom(game_rooms, ev'.room_code)
               /\ HasId(GetRoom(game_rooms, ev'.room_code).players, ev'.player_id)
            THEN
              LET k == RoomIndex(game_rooms, ev'.room_code)
                  players == game_rooms[k].players
                  p == FirstWithId(players, ev'.player_id)
              IN
              \E pose \in ResetPoses :
                 /\ Len(game_rooms') = Len(game_rooms)
                 /\ \A j \in Rooms : j # k => game_rooms'[j] = game_rooms[j]
                 /\ game_rooms'[k] =
                       [game_rooms[k] EXCEPT !.players = game_rooms'[k].players]
                 /\ Len(game_rooms'[k].players) = Len(players)
                 /\ \A q \in 1 .. Len(players) :
                       q # p => game_rooms'[k].players[q] = players[q]
                 /\ game_rooms'[k].players[p] =
                       [players[p] EXCEPT !.position = pose.position,
                                          !.rotation = pose.rotation,
                                          !.velocity = <<0, 0, 0>>]
                 /\ out' =
                       << Msg("position_reset", ToSid(players[p].sid),
                              [position |-> pose.position,
                               rotation |-> pose.rotation]),
                          Msg("player_position_update",
                              ToSid(game_rooms[k].host_sid),
                              [player_id |-> ev'.player_id,
                               position |-> pose.position,
                               rotation |-> pose.rotation,
                               velocity |-> <<0, 0, 0>>]) >>
            ELSE
              /\ game_rooms' = game_rooms
              /\ out' = << >>]_vars

\* Two players of a roster have the id asked for: the earlier one has been
\* reset and told so, the later one is still where it started.
C18_Witness ==
    /\ ev.op = "reset_player_position"
    /\ Len(out) = 2
    /\ out[1].event = "position_reset"
    /\ out[2].event = "player_position_update"
    /\ HasRoom(game_rooms, ev.room_code)
    /\ LET players == GetRoom(game_rooms, ev.room_code).players IN
          \E p, q \in 1 .. Len(players) :
             /\ p < q
             /\ players[p].id = ev.player_id
             /\ players[p].position # StartPosition
             /\ out[1].to = ToSid(players[p].sid)
             /\ players[q].id = ev.player_id
             /\ players[q].position = StartPosition
\* C19: start_game by the host of a room that is already racing leaves the
\* room table as it is, sends no error, and delivers no message to any
\* connection.
C19_RestartDeliversNothing ==
    [][(/\ Handled("start_game")
        /\ HasRoom(game_rooms, ev'.room_code)
        /\ GetRoom(game_rooms, ev'.room_code).host_sid = ev'.sid
        /\ GetRoom(game_rooms, ev'.room_code).game_state = "racing")
       =>
       /\ game_rooms' = game_rooms
       /\ \A i \in 1 .. Len(out') :
             /\ out'[i].event # "error"
             /\ Recipients(out'[i], sio_rooms') = {}]_vars
\* C20: no connection is in the players roster of two rooms.
C20_OneRosterPerConnection ==
    \A j, k \in Rooms :
       \A sid \in Sids :
          (HasPlayer(game_rooms[j].players, sid) /\ HasPlayer(game_rooms[k].players, sid))
             => j = k
\* C21: every host and every roster key of the room table is a connection
\* whose disconnect has not been handled; so the table is empty once every
\* connection has disconnected.
C21_StoreNamesConnectedOnly ==
    /\ \A k \in Rooms :
          /\ game_rooms[k].host_sid \in connected
          /\ \A p \in 1 .. Len(game_rooms[k].players) :
                game_rooms[k].players[p].sid \in connected
    /\ connected = {} => game_rooms = << >>
\* The connection is the host or a player of the room with this code.
IsMember(rooms, room_code, sid) ==
    /\ HasRoom(rooms, room_code)
    /\ \/ GetRoom(rooms, room_code).host_sid = sid
       \/ HasPlayer(GetRoom(rooms, room_code).players, sid)

\* C22: a player_controls_update emitted for a control update reaches a
\* connection only when the room code it names is a room of the table and
\* the sender is the host or a player of that room.
C22_ControlsFromMembersOnly ==
    ev.op = "player_control_update" =>
       \A i \in 1 .. Len(out) :
          out[i].event = "player_controls_update" =>
             \/ IsMember(game_rooms, ev.room_code, ev.sid)
             \/ Recipients(out[i], sio_rooms) = {}
\* The host and the players of a room.
Members(room) ==
    {room.host_sid} \cup {room.players[p].sid : p \in 1 .. Len(room.players)}

\* C23: every connection subscribed to the channel of a room of the table
\* is the host or a player of that room, also when the code of the room was
\* the code of an earlier room; so a message to the channel reaches no
\* connection that belonged only to the earlier room.
C23_SubscribersAreMembers ==
    \A k \in Rooms :
       Subscribers(sio_rooms, game_rooms[k].room_code)
          \subseteq Members(game_rooms[k])
====
